---- MODULE Spec2Model ----
(***************************************************************************)
(* Model of src/app.py: the MongoDB Atlas debug dashboard.                 *)
(*                                                                         *)
(* The Dash callback refresh_debug runs one probe cycle per request.  The  *)
(* web server handles requests on threads, so cycles of different workers  *)
(* interleave at every access to the module globals LOG_LINES and          *)
(* _MONGO_CLIENT and at every blocking call (DNS, MongoClient, ping,       *)
(* list_database_names).  Purely local computation between two such points *)
(* is folded into the step that precedes it.                               *)
(***************************************************************************)
EXTENDS Integers, Sequences, FiniteSets

\* ------------------------------------------------------------------ bounds
\* request threads of the web server that may run refresh_debug concurrently
NumWorkers == 2
Workers == 1..NumWorkers
\* callbacks (or direct probe calls) started in one run of the model
MaxCycles == 2
\* SRV answers returned by one dns.resolver.resolve call
MaxSrv == 1
\* database names returned by one list_database_names call
MaxDbs == 11
\* log() calls made in one run of the rolling-log specification
MaxAppends == 303

\* ------------------------------------------------------------ program data
MAX_LOG_LINES == 300

\* values of the MONGODB_URI environment variable (os.getenv default is "")
U_EMPTY == ""
U_SRV == "mongodb+srv://user:pw@cluster0.example.mongodb.net/app"
U_NOHOST == "cluster0.example.mongodb.net"
U_BAD == "mongodb://[::1"
URIs == {U_EMPTY, U_SRV, U_NOHOST, U_BAD}

\* exceptions the blocking calls can raise: [type |-> class name, msg |-> str(e)]
Exc(t, m) == [type |-> t, msg |-> m]
NoExc == Exc("", "")
SrvExcs == {Exc("NXDOMAIN", "The DNS query name does not exist")}
AddrExcs == {Exc("gaierror", "Name or service not known")}
CtorExcs == {Exc("ConfigurationError", "Empty host (or extra comma in host list)")}
PingExcs == {Exc("ServerSelectionTimeoutError", "timed out"), Exc("OSError", "network unreachable")}
ListExcs == {Exc("OperationFailure", "not authorized")}
FaultExcs == {Exc("RuntimeError", "unexpected")}

\* f"{type(e).__name__}: {e}"
FormatExc(e) == <<e.type, ": ", e.msg>>
\* traceback.format_exc() inside an except block: names the active exception
format_exc(e) == <<"Traceback (most recent call last):", e.type, e.msg>>
\* Python None for the text-valued fields (falsy, like the empty string)
None == <<>>

VARIABLES uri, _MONGO_CLIENT, LOG_LINES, constructed, appended, cycles, pc, loc

vars == <<uri, _MONGO_CLIENT, LOG_LINES, constructed, appended, cycles, pc, loc>>

\* -------------------------------------------------------- pure functions

\* Python's  del L[:n]  (a negative n counts from the end of the list)
DelPrefix(L, n) ==
  LET stop == IF n >= 0 THEN (IF n > Len(L) THEN Len(L) ELSE n)
              ELSE (IF Len(L) + n > 0 THEN Len(L) + n ELSE 0)
  IN SubSeq(L, stop + 1, Len(L))

\* log() trimming the wrong end:  del LOG_LINES[MAX_LOG_LINES:]
log_drop_newest(L, ts, msg) ==
  LET A == Append(L, [ts |-> ts, msg |-> msg])
  IN IF Len(A) > MAX_LOG_LINES
       THEN SubSeq(A, 1, MAX_LOG_LINES)
       ELSE A

\* log(msg) applied to the list L at time ts; the entry f"[{ts}] {msg}" is the
\* pair of its timestamp and message, ts being the ordinal of the append
log(L, ts, msg) ==
  LET A == Append(L, [ts |-> ts, msg |-> msg])
  IN IF Len(A) > MAX_LOG_LINES
       THEN DelPrefix(A, Len(A) - MAX_LOG_LINES)
       ELSE A

\* urlparse(uri) for the URIs of the model: raises on the unbalanced bracket,
\* hostname None is the empty string (both are falsy)
urlparse(u) ==
  CASE u = U_SRV -> [raises |-> FALSE, scheme |-> "mongodb+srv",
                     hostname |-> "cluster0.example.mongodb.net", path |-> "/app"]
    [] u = U_NOHOST -> [raises |-> FALSE, scheme |-> "", hostname |-> "",
                        path |-> "cluster0.example.mongodb.net"]
    [] u = U_BAD -> [raises |-> TRUE, scheme |-> "", hostname |-> "", path |-> ""]
    [] OTHER -> [raises |-> FALSE, scheme |-> "", hostname |-> "", path |-> ""]

safe_uri_summary(u) ==
  IF u = "" THEN <<"<missing>">>
  ELSE IF urlparse(u).raises THEN <<"<unable to parse uri safely>">>
  ELSE LET parsed == urlparse(u)
           scheme == IF parsed.scheme # "" THEN parsed.scheme ELSE "<unknown-scheme>"
           host == IF parsed.hostname # "" THEN parsed.hostname ELSE "<unknown-host>"
       IN <<scheme, "://***:***@", host, parsed.path>>

get_atlas_host_from_uri(u) ==
  IF u = "" THEN ""
  ELSE IF urlparse(u).raises THEN ""
  ELSE urlparse(u).hostname

\* the k-th SRV answer of the resolver, as the dict built at lines 81-86
SrvRecord(k) == [priority |-> 0, weight |-> 0, port |-> 27017, target |-> <<"shard", k>>]

\* srv_records_debug storing each record in out["records"] as it is converted
srv_records_debug_partial(atlas_host, answers, exc) ==
  [ok |-> exc = NoExc, query |-> <<"_mongodb._tcp.", atlas_host>>,
   records |-> [k \in 1..answers |-> SrvRecord(k)],
   error |-> IF exc = NoExc THEN None ELSE FormatExc(exc)]

\* srv_records_debug(atlas_host): the resolver returns `answers` records and
\* exc is raised (by resolve, or while converting a record) unless it is NoExc
srv_records_debug(atlas_host, answers, exc) ==
  LET srv_q == <<"_mongodb._tcp.", atlas_host>>
  IN IF exc = NoExc
       THEN [ok |-> TRUE, query |-> srv_q,
             records |-> [k \in 1..answers |-> SrvRecord(k)], error |-> None]
       ELSE [ok |-> FALSE, query |-> srv_q, records |-> <<>>, error |-> FormatExc(exc)]

\* resolve_host_ips(host): getaddrinfo returns `ips` addresses or raises exc
resolve_host_ips(host, ips, exc) ==
  IF exc = NoExc
    THEN [host |-> host, ok |-> ips > 0, ips |-> ips, error |-> None]
    ELSE [host |-> host, ok |-> FALSE, ips |-> 0, error |-> FormatExc(exc)]

\* the result dict of mongo_ping_debug as first built
OutInit == [ok |-> FALSE, ping_ok |-> FALSE, timeout_ms |-> 15000, dbs |-> <<>>,
            error |-> None, traceback |-> None]

\* an except clause that keeps str(e) only and drops the exception's type
mongo_ping_debug_except_untyped(out, e) ==
  [out EXCEPT !.error = <<e.msg>>, !.traceback = format_exc(e)]

\* both except clauses of mongo_ping_debug (PyMongoError, then Exception)
mongo_ping_debug_except(out, e) ==
  [out EXCEPT !.error = FormatExc(e), !.traceback = format_exc(e)]

\* list_database_names outside its own try: a failure is the probe's failure
mongo_ping_debug_dbs_fatal(out, n, exc) ==
  IF exc = NoExc
    THEN [out EXCEPT !.dbs = [i \in 1..n |-> <<"db", i>>], !.ok = TRUE]
    ELSE [out EXCEPT !.error = FormatExc(exc), !.traceback = format_exc(exc)]

\* the inner try of mongo_ping_debug: list_database_names returns n names, or
\* raises exc; then ok is set
mongo_ping_debug_dbs(out, n, exc) ==
  [out EXCEPT !.dbs = IF exc = NoExc
                        THEN [i \in 1..n |-> <<"db", i>>]
                        ELSE << <<"<list_database_names failed: ", exc.type, ": ", exc.msg, ">">> >>,
              !.ok = TRUE]

\* ------------------------------------------------------------------ state

\* per-call counters of the blocking calls a worker has issued
NoCalls == [srv |-> 0, resolve |-> 0, ctor |-> 0, made |-> 0, ping |-> 0, list |-> 0]

\* the locals of one worker: the frames of refresh_debug, build_debug_text,
\* mongo_ping_debug, get_mongo_client and log
InitLoc == [caller |-> "", arg_uri |-> "", lines |-> <<>>, srv_error |-> None,
            shard_hosts |-> <<>>, idx |-> 0, out |-> OutInit, client |-> 0,
            logmsg |-> "", logret |-> "", exc |-> NoExc, raised |-> NoExc,
            listed |-> 0, ret |-> [kind |-> "", lines |-> <<>>, exc |-> NoExc],
            calls |-> NoCalls]

Init ==
  /\ uri \in URIs
  /\ _MONGO_CLIENT = 0
  /\ LOG_LINES = <<>>
  /\ constructed = 0
  /\ appended = 0
  /\ cycles = 0
  /\ pc = [p \in Workers |-> "idle"]
  /\ loc = [p \in Workers |-> InitLoc]

Goto(p, s) == pc' = [pc EXCEPT ![p] = s]
SetLoc(p, l) == loc' = [loc EXCEPT ![p] = l]

\* entry of mongo_ping_debug(u): the result dict is built, then
\* get_mongo_client is called
EnterPing(l, u) == [l EXCEPT !.arg_uri = u, !.out = OutInit]

\* where mongo_ping_debug returns to
PingExit(l) == IF l.caller = "refresh_debug" THEN "build_ping" ELSE "ping_returned"

\* ---------------------------------------------------------------- actions

\* the callback fires: the try block is entered and log() is called
refresh_debug(p) ==
  /\ pc[p] = "idle"
  /\ cycles' = cycles + 1
  /\ Goto(p, "log")
  /\ SetLoc(p, [InitLoc EXCEPT !.caller = "refresh_debug",
                               !.logmsg = "refresh_debug fired",
                               !.logret = "build_env"])
  /\ UNCHANGED <<uri, _MONGO_CLIENT, LOG_LINES, constructed, appended>>

\* one call of log(): append, then trim
log_call(p) ==
  /\ pc[p] = "log"
  /\ appended' = appended + 1
  /\ LOG_LINES' = log(LOG_LINES, appended + 1, loc[p].logmsg)
  /\ Goto(p, loc[p].logret)
  /\ UNCHANGED <<uri, _MONGO_CLIENT, constructed, cycles, loc>>

\* the header, runtime and environment sections of the report
EnvLines(u) ==
  << <<"=== MONGODB ATLAS DEBUG (Dash) ===">>, <<"now_utc:">>, <<"app_start_utc:">>, <<"">>,
     <<"=== RUNTIME ===">>, <<"python:">>, <<"executable:">>, <<"platform:">>,
     <<"openssl:">>, <<"certifi_where:">>, <<"">>,
     <<"=== ENV ===">>, <<"MONGODB_URI set:", u # "">>,
     <<"MONGODB_URI safe:", safe_uri_summary(u)>>, <<"">>,
     <<"=== RENDER ENV (if present) ===">> >>

NextStepLines ==
  << <<"">>, <<"=== NEXT STEP ===">>,
     <<"Set MONGODB_URI in Render Environment variables (no quotes).">> >>

SrvHostLines(atlas_host) ==
  << <<"">>, <<"=== SRV HOST ===">>, <<"atlas_host:", atlas_host>>,
     <<"NOTE: Atlas SRV hosts often do NOT have A/AAAA records. SRV is what matters.">> >>

\* build_debug_text without the early return for a missing URI
build_debug_text_env_noexit(p) ==
  /\ pc[p] = "build_env"
  /\ LET l == loc[p]
         atlas_host == IF uri # "" THEN get_atlas_host_from_uri(uri) ELSE ""
     IN IF atlas_host # ""
          THEN /\ Goto(p, "srv")
               /\ SetLoc(p, [l EXCEPT !.lines = EnvLines(uri) \o SrvHostLines(atlas_host)])
          ELSE /\ Goto(p, "gmc_check")
               /\ SetLoc(p, EnterPing([l EXCEPT !.lines = EnvLines(uri) \o SrvHostLines(atlas_host)], uri))
  /\ UNCHANGED <<uri, _MONGO_CLIENT, LOG_LINES, constructed, appended, cycles>>

\* build_debug_text up to the first blocking call: returns the next-step
\* report when the URI is missing
build_debug_text_env(p) ==
  /\ pc[p] = "build_env"
  /\ LET l == loc[p]
         atlas_host == IF uri # "" THEN get_atlas_host_from_uri(uri) ELSE ""
     IN IF uri = ""
          THEN /\ Goto(p, "returned")
               /\ SetLoc(p, [l EXCEPT !.ret = [kind |-> "report",
                                               lines |-> EnvLines(uri) \o NextStepLines,
                                               exc |-> NoExc]])
          ELSE IF atlas_host # ""
            THEN /\ Goto(p, "srv")
                 /\ SetLoc(p, [l EXCEPT !.lines = EnvLines(uri) \o SrvHostLines(atlas_host)])
            ELSE /\ Goto(p, "gmc_check")
                 /\ SetLoc(p, EnterPing([l EXCEPT !.lines = EnvLines(uri) \o SrvHostLines(atlas_host)], uri))
  /\ UNCHANGED <<uri, _MONGO_CLIENT, LOG_LINES, constructed, appended, cycles>>

\* the report lines of the SRV section for the result srv
SrvLines(srv) ==
  << <<"">>, <<"=== DNS SRV RECORDS ===">>, <<"srv_ok:", srv.ok>>, <<"srv_query:", srv.query>> >>
  \o [k \in 1..Len(srv.records) |-> <<"  - ", srv.records[k]>>]
  \o (IF srv.error # None THEN << <<"srv_error:", srv.error>> >> ELSE <<>>)
  \o << <<"">>, <<"=== DNS CHECK FOR SHARD HOSTS (these SHOULD resolve) ===">> >>
  \o (IF Len(srv.records) = 0 THEN << <<"<no shard hosts found>">> >> ELSE <<>>)

\* the SRV lookup and the report lines that follow it
build_debug_text_srv(p) ==
  /\ pc[p] = "srv"
  /\ \E answers \in 0..MaxSrv, exc \in SrvExcs \cup {NoExc} :
       LET l == loc[p]
           srv == srv_records_debug(get_atlas_host_from_uri(uri), answers, exc)
           shard_hosts == [k \in 1..Len(srv.records) |-> srv.records[k].target]
           l2 == [l EXCEPT !.lines = l.lines \o SrvLines(srv),
                           !.srv_error = srv.error,
                           !.shard_hosts = shard_hosts,
                           !.idx = 1,
                           !.calls.srv = l.calls.srv + 1]
       IN IF Len(shard_hosts) > 0
            THEN Goto(p, "resolve") /\ SetLoc(p, l2)
            ELSE Goto(p, "gmc_check") /\ SetLoc(p, EnterPing(l2, uri))
  /\ UNCHANGED <<uri, _MONGO_CLIENT, LOG_LINES, constructed, appended, cycles>>

\* one turn of the loop over shard_hosts
build_debug_text_resolve(p) ==
  /\ pc[p] = "resolve"
  /\ \E ips \in 0..1, exc \in AddrExcs \cup {NoExc} :
       LET l == loc[p]
           h == l.shard_hosts[l.idx]
           res == resolve_host_ips(h, ips, exc)
           l2 == [l EXCEPT !.lines = Append(l.lines, <<"shard host", h, res.ok, res.ips, res.error>>),
                           !.idx = l.idx + 1,
                           !.calls.resolve = l.calls.resolve + 1]
       IN IF l.idx < Len(l.shard_hosts)
            THEN Goto(p, "resolve") /\ SetLoc(p, l2)
            ELSE Goto(p, "gmc_check") /\ SetLoc(p, EnterPing(l2, uri))
  /\ UNCHANGED <<uri, _MONGO_CLIENT, LOG_LINES, constructed, appended, cycles>>

\* get_mongo_client without the test: a client is made on every call
get_mongo_client_check_always(p) ==
  /\ pc[p] = "gmc_check"
  /\ Goto(p, "gmc_create")
  /\ UNCHANGED <<uri, _MONGO_CLIENT, LOG_LINES, constructed, appended, cycles, loc>>

\* get_mongo_client: the test  _MONGO_CLIENT is None
get_mongo_client_check(p) ==
  /\ pc[p] = "gmc_check"
  /\ Goto(p, IF _MONGO_CLIENT = 0 THEN "gmc_create" ELSE "gmc_return")
  /\ UNCHANGED <<uri, _MONGO_CLIENT, LOG_LINES, constructed, appended, cycles, loc>>

\* MongoClient(uri, ...) raises for the empty host list; for any other URI it
\* returns a handle or raises (SRV resolution, URI parsing)
CtorMayReturn(u) == u # ""

\* get_mongo_client: MongoClient(...) is called and the handle stored, then
\* log() is called; an exception leaves through mongo_ping_debug's except
get_mongo_client_create(p) ==
  /\ pc[p] = "gmc_create"
  /\ LET l == [loc[p] EXCEPT !.calls.ctor = loc[p].calls.ctor + 1]
     IN \/ /\ CtorMayReturn(l.arg_uri)
           /\ constructed' = constructed + 1
           /\ _MONGO_CLIENT' = constructed + 1
           /\ Goto(p, "log")
           /\ SetLoc(p, [l EXCEPT !.logmsg = "MongoClient created (pooled)",
                                  !.logret = "gmc_return",
                                  !.calls.made = l.calls.made + 1])
        \/ /\ \E e \in CtorExcs :
                SetLoc(p, [l EXCEPT !.out = mongo_ping_debug_except(l.out, e), !.raised = e])
           /\ Goto(p, PingExit(l))
           /\ UNCHANGED <<_MONGO_CLIENT, constructed>>
  /\ UNCHANGED <<uri, LOG_LINES, appended, cycles>>

\* get_mongo_client:  return _MONGO_CLIENT
get_mongo_client_return(p) ==
  /\ pc[p] = "gmc_return"
  /\ Goto(p, "ping")
  /\ SetLoc(p, [loc[p] EXCEPT !.client = _MONGO_CLIENT])
  /\ UNCHANGED <<uri, _MONGO_CLIENT, LOG_LINES, constructed, appended, cycles>>

\* mongo_ping_debug: client.admin.command("ping")
mongo_ping_debug_ping(p) ==
  /\ pc[p] = "ping"
  /\ LET l == [loc[p] EXCEPT !.calls.ping = loc[p].calls.ping + 1]
     IN \/ /\ Goto(p, "list")
           /\ SetLoc(p, [l EXCEPT !.out.ping_ok = TRUE])
        \/ /\ \E e \in PingExcs :
                SetLoc(p, [l EXCEPT !.out = mongo_ping_debug_except(l.out, e), !.raised = e])
           /\ Goto(p, PingExit(l))
  /\ UNCHANGED <<uri, _MONGO_CLIENT, LOG_LINES, constructed, appended, cycles>>

\* mongo_ping_debug: client.list_database_names() in its own try, then ok
mongo_ping_debug_list(p) ==
  /\ pc[p] = "list"
  /\ LET l == [loc[p] EXCEPT !.calls.list = loc[p].calls.list + 1]
     IN \/ \E n \in 0..MaxDbs :
             SetLoc(p, [l EXCEPT !.out = mongo_ping_debug_dbs(l.out, n, NoExc), !.listed = n])
        \/ \E e \in ListExcs :
             SetLoc(p, [l EXCEPT !.out = mongo_ping_debug_dbs(l.out, 0, e), !.raised = e])
  /\ Goto(p, PingExit(loc[p]))
  /\ UNCHANGED <<uri, _MONGO_CLIENT, LOG_LINES, constructed, appended, cycles>>

\* the report lines of the ping section for the result m
PingLines(m) ==
  << <<"">>, <<"=== PYMONGO PING ===">>, <<"mongo_ok:", m.ok>>, <<"ping_ok:", m.ping_ok>>,
     <<"timeout_ms:", m.timeout_ms>> >>
  \o (IF Len(m.dbs) > 0 THEN << <<"dbs:", m.dbs>> >> ELSE <<>>)
  \o (IF m.error # None THEN << <<"mongo_error:", m.error>> >> ELSE <<>>)
  \o (IF m.traceback # None
        THEN << <<"">>, <<"--- pymongo traceback ---">>, <<"traceback", m.traceback>> >> ELSE <<>>)

\* LOG_LINES[-MAX_LOG_LINES:]
LogTail(L) == SubSeq(L, (IF Len(L) > MAX_LOG_LINES THEN Len(L) - MAX_LOG_LINES ELSE 0) + 1, Len(L))

RollingLogLines(L) ==
  << <<"">>, <<"=== ROLLING LOG ===">> >>
  \o (IF Len(L) > 0 THEN [i \in 1..Len(LogTail(L)) |-> <<"log", LogTail(L)[i]>>]
                    ELSE << <<"<no log lines yet>">> >>)

\* build_debug_text after mongo_ping_debug returned: the ping section, the
\* rolling log, and the return of the report
build_debug_text_ping(p) ==
  /\ pc[p] = "build_ping"
  /\ Goto(p, "returned")
  /\ LET l == loc[p]
     IN SetLoc(p, [l EXCEPT !.ret = [kind |-> "report",
                                     lines |-> l.lines \o PingLines(l.out) \o RollingLogLines(LOG_LINES),
                                     exc |-> NoExc]])
  /\ UNCHANGED <<uri, _MONGO_CLIENT, LOG_LINES, constructed, appended, cycles>>

\* an exception nothing in the cycle expects, raised by log() or by the report
\* assembly: inside mongo_ping_debug's try it is handled there, anywhere else
\* it reaches the except clause of refresh_debug
fault(p) ==
  /\ pc[p] \in {"log", "build_env", "build_ping"}
  /\ \E e \in FaultExcs :
       LET l == loc[p]
       IN IF pc[p] = "log" /\ l.logret = "gmc_return"
            THEN /\ Goto(p, PingExit(l))
                 /\ SetLoc(p, [l EXCEPT !.out = mongo_ping_debug_except(l.out, e), !.raised = e])
            ELSE /\ Goto(p, "cb_except")
                 /\ SetLoc(p, [l EXCEPT !.exc = e, !.raised = e])
  /\ UNCHANGED <<uri, _MONGO_CLIENT, LOG_LINES, constructed, appended, cycles>>

\* refresh_debug without its try: the exception leaves the callback
refresh_debug_except_reraise(p) ==
  /\ pc[p] = "cb_except"
  /\ Goto(p, "propagated")
  /\ UNCHANGED <<uri, _MONGO_CLIENT, LOG_LINES, constructed, appended, cycles, loc>>

\* refresh_debug:  except Exception  returns the crash message
refresh_debug_except(p) ==
  /\ pc[p] = "cb_except"
  /\ Goto(p, "returned")
  /\ SetLoc(p, [loc[p] EXCEPT !.ret = [kind |-> "DEBUG CALLBACK CRASHED:",
                                       lines |-> <<FormatExc(loc[p].exc), format_exc(loc[p].exc)>>,
                                       exc |-> loc[p].exc]])
  /\ UNCHANGED <<uri, _MONGO_CLIENT, LOG_LINES, constructed, appended, cycles>>

\* the callback's return value is handed to the page; the worker is free again
refresh_debug_return(p) ==
  /\ pc[p] = "returned"
  /\ Goto(p, "idle")
  /\ SetLoc(p, InitLoc)
  /\ UNCHANGED <<uri, _MONGO_CLIENT, LOG_LINES, constructed, appended, cycles>>

\* a direct call of mongo_ping_debug(u), as a test of the probe makes it
mongo_ping_debug(p, u) ==
  /\ pc[p] = "idle"
  /\ cycles' = cycles + 1
  /\ Goto(p, "gmc_check")
  /\ SetLoc(p, EnterPing([InitLoc EXCEPT !.caller = "mongo_ping_debug"], u))
  /\ UNCHANGED <<uri, _MONGO_CLIENT, LOG_LINES, constructed, appended>>

\* the direct call has returned its result dict
mongo_ping_debug_return(p) ==
  /\ pc[p] = "ping_returned"
  /\ Goto(p, "idle")
  /\ SetLoc(p, InitLoc)
  /\ UNCHANGED <<uri, _MONGO_CLIENT, LOG_LINES, constructed, appended, cycles>>

\* ---------------------------------------------------------- specifications

\* the steps of a probe cycle once it has started
Step(p) ==
  \/ log_call(p)
  \/ build_debug_text_env(p)
  \/ build_debug_text_srv(p)
  \/ build_debug_text_resolve(p)
  \/ get_mongo_client_check(p)
  \/ get_mongo_client_create(p)
  \/ get_mongo_client_return(p)
  \/ mongo_ping_debug_ping(p)
  \/ mongo_ping_debug_list(p)
  \/ build_debug_text_ping(p)
  \/ fault(p)
  \/ refresh_debug_except(p)
  \/ refresh_debug_return(p)

\* the served application: callbacks on concurrent request threads
Next ==
  \E p \in Workers :
    \/ cycles < MaxCycles /\ refresh_debug(p)
    \/ Step(p)

Spec == Init /\ [][Next]_vars

AllIdle == \A q \in Workers : pc[q] = "idle"

\* the same callbacks, one at a time
SeqNext ==
  \E p \in Workers :
    \/ cycles < MaxCycles /\ AllIdle /\ refresh_debug(p)
    \/ Step(p)

SeqSpec == Init /\ [][SeqNext]_vars

\* the probe called directly with any URI
ProbeNext ==
  \E p \in Workers :
    \/ cycles < MaxCycles /\ \E u \in URIs : mongo_ping_debug(p, u)
    \/ get_mongo_client_check(p)
    \/ get_mongo_client_create(p)
    \/ log_call(p)
    \/ get_mongo_client_return(p)
    \/ mongo_ping_debug_ping(p)
    \/ mongo_ping_debug_list(p)
    \/ mongo_ping_debug_return(p)

ProbeSpec == Init /\ [][ProbeNext]_vars

\* the unconfigured application serving callbacks until the log has rolled over
LogInit == Init /\ uri = U_EMPTY

LogNext ==
  \E p \in Workers :
    \/ appended < MaxAppends /\ refresh_debug(p)
    \/ log_call(p)
    \/ build_debug_text_env(p)
    \/ refresh_debug_return(p)

LogSpec == LogInit /\ [][LogNext]_vars

\* ------------------------------------------------------------------ claims

HasLine(lines, label) == \E i \in 1..Len(lines) : lines[i][1] = label
LastLabel(lines) == lines[Len(lines)][1]
Min(a, b) == IF a < b THEN a ELSE b

\* C1: under any interleaving of concurrent first calls of get_mongo_client,
\* MongoClient is constructed at most once and every caller receives that one
\* handle.
C1_SingleConstruction ==
  /\ constructed <= 1
  /\ \A p, q \in Workers :
       (loc[p].client # 0 /\ loc[q].client # 0) => loc[p].client = loc[q].client

\* C2: with calls of get_mongo_client that do not overlap, once the handle is
\* stored no step replaces or resets it and no further client is constructed
\* (a failed ping included), and every call returns the stored handle.
C2_HandleReused ==
  /\ [][_MONGO_CLIENT # 0 => (_MONGO_CLIENT' = _MONGO_CLIENT /\ constructed' = constructed)]_vars
  /\ [](\A p \in Workers :
          pc[p] \in {"ping", "list", "build_ping"} /\ loc[p].client # 0
            => loc[p].client = _MONGO_CLIENT /\ _MONGO_CLIENT = 1)

\* a second, later cycle was handed the handle of the first without calling
\* MongoClient, its ping failed, and the handle is still stored
C2_Witness ==
  \E p \in Workers :
    /\ pc[p] = "build_ping" /\ cycles = 2
    /\ loc[p].calls.ctor = 0 /\ loc[p].client = 1
    /\ loc[p].calls.ping = 1 /\ loc[p].out.error # None
    /\ _MONGO_CLIENT = 1 /\ constructed = 1

\* C3: after any number of log() calls LOG_LINES holds at most MAX_LOG_LINES
\* entries, and they are exactly the last min(appended, MAX_LOG_LINES) entries
\* appended, in the order of their appends: only the oldest are ever removed.
C3_RollingLog ==
  /\ Len(LOG_LINES) <= MAX_LOG_LINES
  /\ Len(LOG_LINES) = Min(appended, MAX_LOG_LINES)
  /\ \A i \in 1..Len(LOG_LINES) : LOG_LINES[i].ts = appended - Len(LOG_LINES) + i

\* more than MAX_LOG_LINES entries were appended and the two oldest are gone
C3_Witness ==
  /\ appended = MAX_LOG_LINES + 2
  /\ Len(LOG_LINES) = MAX_LOG_LINES
  /\ LOG_LINES[1].ts = 3

\* C4: mongo_ping_debug called with an empty URI returns ok = False without
\* constructing a client and without issuing the ping.
C4_EmptyUriNoNetwork ==
  \A p \in Workers :
    pc[p] = "ping_returned" /\ loc[p].arg_uri = ""
      => /\ loc[p].out.ok = FALSE
         /\ loc[p].calls.made = 0
         /\ loc[p].calls.ping = 0

\* C5: with MONGODB_URI missing, a cycle issues no SRV lookup, no host
\* resolution, no MongoClient call and no ping, and unless an unexpected
\* exception is raised it returns the report that ends in the next-step line.
C5_MissingUriShortCircuits ==
  uri = "" =>
    /\ constructed = 0 /\ _MONGO_CLIENT = 0
    /\ \A p \in Workers :
         /\ loc[p].calls = NoCalls
         /\ pc[p] \in {"idle", "log", "build_env", "cb_except", "returned"}
         /\ (pc[p] = "returned" /\ loc[p].raised = NoExc)
              => /\ loc[p].ret.kind = "report"
                 /\ LastLabel(loc[p].ret.lines)
                      = "Set MONGODB_URI in Render Environment variables (no quotes)."
                 /\ HasLine(loc[p].ret.lines, "=== NEXT STEP ===")
                 /\ ~HasLine(loc[p].ret.lines, "=== PYMONGO PING ===")

\* a cycle with the URI missing has returned its report
C5_Witness ==
  \E p \in Workers :
    uri = "" /\ pc[p] = "returned" /\ loc[p].ret.kind = "report" /\ appended >= 1

\* C6: when the ping succeeded, mongo_ping_debug returns ok = True with error
\* and traceback unset, whether list_database_names returned or raised; a
\* failure of the listing is the one text entry of dbs.
C6_PingAuthoritative ==
  \A p \in Workers :
    (pc[p] \in {"build_ping", "ping_returned"} /\ loc[p].out.ping_ok)
      => /\ loc[p].out.ok = TRUE
         /\ loc[p].out.error = None
         /\ loc[p].out.traceback = None
         /\ loc[p].calls.list = 1
         /\ loc[p].raised # NoExc
              => loc[p].out.dbs = << <<"<list_database_names failed: ", loc[p].raised.type,
                                       ": ", loc[p].raised.msg, ">">> >>

\* the ping succeeded, the listing raised, and the probe returned
C6_Witness ==
  \E p \in Workers :
    /\ pc[p] = "build_ping" /\ loc[p].out.ping_ok
    /\ loc[p].raised \in ListExcs /\ loc[p].out.ok

\* C7: when the ping succeeded and the listing returned n names, the result
\* lists the first min(n, 10) names and carries a truncation marker iff n > 10.
C7_ListsAtMostTen ==
  \A p \in Workers :
    (pc[p] \in {"build_ping", "ping_returned"} /\ loc[p].out.ping_ok /\ loc[p].raised = NoExc)
      => LET dbs == loc[p].out.dbs
             names == {i \in 1..Len(dbs) : dbs[i][1] = "db"}
             marker == \E i \in 1..Len(dbs) : dbs[i][1] \in {"...", "(truncated)"}
         IN /\ Cardinality(names) = Min(loc[p].listed, 10)
            /\ \A i \in names : dbs[i] = <<"db", i>>
            /\ marker <=> loc[p].listed > 10

C9_SrvFailureIsolated ==
  \A p \in Workers :
    (loc[p].calls.srv = 1 /\ loc[p].srv_error # None)
      => /\ loc[p].srv_error \in {FormatExc(e) : e \in SrvExcs}
         /\ loc[p].shard_hosts = <<>>
         /\ loc[p].calls.resolve = 0
         /\ HasLine(loc[p].lines, "srv_error:")
         /\ HasLine(loc[p].lines, "<no shard hosts found>")
         /\ ~HasLine(loc[p].lines, "shard host")
         /\ pc[p] \in {"gmc_check", "gmc_create", "log", "gmc_return", "ping", "list",
                       "build_ping", "cb_except", "returned"}
         /\ pc[p] = "cb_except" => loc[p].exc \in FaultExcs
         /\ (pc[p] = "returned" /\ loc[p].exc = NoExc)
              => /\ loc[p].ret.kind = "report"
                 /\ HasLine(loc[p].ret.lines, "<no shard hosts found>")
                 /\ HasLine(loc[p].ret.lines, "=== PYMONGO PING ===")
                 /\ HasLine(loc[p].ret.lines, "=== ROLLING LOG ===")

\* the SRV lookup failed and the cycle returned a report with the ping section
C9_Witness ==
  \E p \in Workers :
    /\ pc[p] = "returned" /\ loc[p].srv_error # None /\ loc[p].calls.srv = 1
    /\ loc[p].ret.kind = "report" /\ HasLine(loc[p].ret.lines, "mongo_ok:")

\* C10: no exception leaves refresh_debug: a finished cycle has returned
\* either the report or the crash message with the exception's type, text
\* and traceback.
C10_CallbackAlwaysReturns ==
  \A p \in Workers :
    /\ pc[p] # "propagated"
    /\ pc[p] = "cb_except" => ENABLED refresh_debug_except(p)
    /\ pc[p] = "returned"
         => \/ loc[p].ret.kind = "report" /\ loc[p].exc = NoExc /\ Len(loc[p].ret.lines) > 0
            \/ /\ loc[p].ret.kind = "DEBUG CALLBACK CRASHED:"
               /\ loc[p].exc \in FaultExcs
               /\ loc[p].ret.lines = << <<loc[p].exc.type, ": ", loc[p].exc.msg>>,
                                        format_exc(loc[p].exc) >>

\* an unexpected exception was raised in the cycle and the crash message returned
C10_Witness ==
  \E p \in Workers :
    /\ pc[p] = "returned" /\ loc[p].ret.kind = "DEBUG CALLBACK CRASHED:"
    /\ loc[p].raised \in FaultExcs

====
